---- MODULE Spec2Model ----
(***************************************************************************)
(* Kernel PCA (benjarison/kernel-pca): KernelPca::apply with its helpers   *)
(* (validate, form_kernel_matrix, center_data, center_kernel_matrix,       *)
(* determine_signs), Kernel::compute and sort_indices_descending.          *)
(*                                                                         *)
(* Numbers.  The inputs of a call (dataset entries, gamma, alpha) are      *)
(* small integers.  Values derived from them before the decomposition are  *)
(* exact: a scalar is a polynomial in E = exp(-1) with rational            *)
(* coefficients, so that 1/n, (1 + gamma*ssd)^(-alpha) and                 *)
(* exp(-gamma*ssd) = E^(gamma*ssd) are all represented without rounding.   *)
(* The decomposition x.svd(true, false) is nalgebra's: its result is a     *)
(* nondeterministic choice among integer-scaled factors of the shape the   *)
(* library returns (see svd).  NaN is the value Float::sqrt gives for a    *)
(* negative argument.                                                      *)
(***************************************************************************)
EXTENDS Integers, Sequences, FiniteSets, TLC

VARIABLES
    kernel,      \* KernelPca.kernel
    embed_dim,   \* KernelPca.embed_dim
    data,        \* the dataset handed to the last call of apply
    x,           \* apply: the centered matrix (lib.rs:47), <<>> before it exists
    kmat,        \* the matrix form_kernel_matrix returned, <<>> when not called
    svd_u,       \* apply: svd.u
    svd_sv,      \* apply: svd.singular_values
    sqrt_args,   \* apply: the values handed to Float::sqrt (lib.rs:56)
    signs,       \* apply: what determine_signs returned (lib.rs:61)
    result,      \* what the last call of apply ended in
    rank_calls,  \* number of calls of sort_indices_descending so far
    calls,       \* number of calls of apply so far
    prev,        \* SpecPure: the first call of apply, <<>> before it
    values,      \* SpecSort: the argument of sort_indices_descending
    inds         \* SpecSort: what sort_indices_descending returned

vars == <<kernel, embed_dim, data, x, kmat, svd_u, svd_sv, sqrt_args, signs,
          result, rank_calls, calls, prev, values, inds>>

\* the result of Float::sqrt on a negative argument: a value no arithmetic of
\* the model produces, absorbing in FMul
NaN == -1000000

-----------------------------------------------------------------------------
(* Bounds of the model *)

\* most rows of a dataset
MaxN == 2
\* most entries of a row
MaxD == 2
\* largest embed_dim of a configuration
MaxEmbed == 3
\* longest argument of sort_indices_descending
MaxLen == 5
\* most calls of apply on one configuration and dataset
MaxCalls == 3

\* entries of a dataset
DataValues == {0, 1}
\* gamma and alpha of the kernels (positive, spec section 3)
Gammas == {1}
Alphas == {2}
\* the values ranked by sort_indices_descending: the documented example
\* [0.5, 0.3, 0.8, 0.7, 0.4] scaled by ten
SortValues == {3, 4, 5, 7, 8}
\* entries of the integer-scaled left singular vectors
UValues == {-1, 0, 1}
\* singular values: squares, so that their square roots are exact
SingularValues == {0, 4}
\* entries of the matrices determine_signs is applied to on its own
SignValues == {-1, 0, 1, 2}

-----------------------------------------------------------------------------
(* Generic helpers *)

Min(a, b) == IF a < b THEN a ELSE b
Abs(a) == IF a < 0 THEN -a ELSE a

RECURSIVE GCD(_, _)
GCD(a, b) == IF b = 0 THEN a ELSE GCD(b, a % b)

RECURSIVE SeqsUpTo(_, _)
\* all sequences over S of length at most n
SeqsUpTo(S, n) == IF n = 0 THEN {<<>>}
                  ELSE LET shorter == SeqsUpTo(S, n - 1)
                       IN shorter \cup {Append(s, e) : s \in shorter, e \in S}

\* all r x c matrices (sequences of rows) over S
Matrices(S, r, c) == [1..r -> [1..c -> S]]

nrows(m) == Len(m)
ncols(m) == IF Len(m) = 0 THEN 0 ELSE Len(m[1])

-----------------------------------------------------------------------------
(* The scalar field T, exactly *)

\* rationals <<p, q>>, q > 0, in lowest terms
Rat(p, q) == LET s == IF q < 0 THEN -1 ELSE 1
                 g == GCD(Abs(p), Abs(q))
             IN <<(s * p) \div g, (s * q) \div g>>
RAdd(a, b) ==
    IF a[1] = 0 THEN b ELSE IF b[1] = 0 THEN a
    ELSE Rat(a[1] * b[2] + b[1] * a[2], a[2] * b[2])
RSub(a, b) ==
    IF b[1] = 0 THEN a ELSE Rat(a[1] * b[2] - b[1] * a[2], a[2] * b[2])
RMul(a, b) ==
    IF a[1] = 0 \/ b[1] = 0 THEN <<0, 1>> ELSE Rat(a[1] * b[1], a[2] * b[2])
RDiv(a, b) == Rat(a[1] * b[2], a[2] * b[1])
RECURSIVE RPow(_, _)
RPow(a, k) == IF k = 0 THEN <<1, 1>> ELSE RMul(a, RPow(a, k - 1))

\* a sequence given by a rule, written out element by element
Tuple(f) == f \o <<>>

\* largest exponent of E = exp(-1) a kernel value can carry
MaxExp == LET G == CHOOSE g \in Gammas : \A h \in Gammas : h <= g
              hi == CHOOSE v \in DataValues : \A w \in DataValues : w <= v
              lo == CHOOSE v \in DataValues : \A w \in DataValues : v <= w
          IN G * MaxD * (hi - lo) * (hi - lo)
\* a scalar is the sequence of its coefficients: entry k + 1 is that of E^k
Coeffs == 1..(MaxExp + 1)

\* T::from(i), T::zero(), T::one()
TRat(r) == Tuple([k \in Coeffs |-> IF k = 1 THEN r ELSE <<0, 1>>])
TFrom(i) == TRat(<<i, 1>>)
TZero == TFrom(0)
TOne == TFrom(1)
EFree(a) == \A k \in Coeffs : k > 1 => a[k][1] = 0
TAdd(a, b) == Tuple([k \in Coeffs |-> RAdd(a[k], b[k])])
TSub(a, b) == Tuple([k \in Coeffs |-> RSub(a[k], b[k])])
RECURSIVE ConvSum(_, _, _, _)
ConvSum(a, b, k, i) ==
    IF i > k THEN <<0, 1>>
    ELSE RAdd(RMul(a[i], b[k + 1 - i]), ConvSum(a, b, k, i + 1))
\* the product of two polynomials in E (of a rational and a polynomial,
\* coefficient by coefficient)
TMul(a, b) ==
    IF EFree(a) THEN Tuple([k \in Coeffs |-> RMul(a[1], b[k])])
    ELSE IF EFree(b) THEN Tuple([k \in Coeffs |-> RMul(a[k], b[1])])
    ELSE Tuple([k \in Coeffs |-> ConvSum(a, b, k, 1)])
\* a / b for a rational (E-free) divisor b
TDiv(a, b) == Tuple([k \in Coeffs |-> RDiv(a[k], b[1])])
\* a.powf(-alpha) for an E-free base a and an integer alpha >= 0
TPowNeg(a, alpha) == TRat(RDiv(<<1, 1>>, RPow(a[1], alpha)))
\* a.exp() for an E-free integer a <= 0: exp(-m) = E^m
TExp(a) == Tuple([k \in Coeffs |-> IF k = 1 - a[1][1] THEN <<1, 1>> ELSE <<0, 1>>])

-----------------------------------------------------------------------------
(* kernel.rs *)

Linear == [tag |-> "Linear"]
RationalQuadratic(gamma, alpha) ==
    [tag |-> "RationalQuadratic", gamma |-> gamma, alpha |-> alpha]
SquaredExponential(gamma) == [tag |-> "SquaredExponential", gamma |-> gamma]

Kernels == {Linear}
           \cup {RationalQuadratic(g, a) : g \in Gammas, a \in Alphas}
           \cup {SquaredExponential(g) : g \in Gammas}

RECURSIVE DotFold(_, _, _)
\* a.iter().zip(b.iter()).fold(T::zero(), |sum, (&a, &b)| sum + a * b), the
\* first i pairs; zip stops at the shorter slice.  The entries are integers,
\* on which the +, - and * of T are exact: the folds run on them and TFrom
\* embeds the result
DotFold(a, b, i) ==
    IF i = 0 THEN 0 ELSE DotFold(a, b, i - 1) + a[i] * b[i]

compute_linear(a, b) == TFrom(DotFold(a, b, Min(Len(a), Len(b))))

RECURSIVE SsdFold(_, _, _)
\* fold(T::zero(), |sum, (&a, &b)| { let diff = a - b; sum + diff * diff })
SsdFold(a, b, i) ==
    IF i = 0 THEN 0
    ELSE LET diff == a[i] - b[i]
         IN SsdFold(a, b, i - 1) + diff * diff

compute_rational_quadratic(a, b, gamma, alpha) ==
    LET ssd == SsdFold(a, b, Min(Len(a), Len(b)))
    IN TPowNeg(TFrom(1 + gamma * ssd), alpha)

compute_squared_exponential(a, b, gamma) ==
    LET ssd == SsdFold(a, b, Min(Len(a), Len(b)))
    IN TExp(TFrom((-gamma) * ssd))

compute(k, a, b) ==
    CASE k.tag = "Linear" -> compute_linear(a, b)
      [] k.tag = "RationalQuadratic" ->
            compute_rational_quadratic(a, b, k.gamma, k.alpha)
      [] k.tag = "SquaredExponential" ->
            compute_squared_exponential(a, b, k.gamma)

-----------------------------------------------------------------------------
(* util.rs *)

\* the comparator with the comparison turned round
cmp_ascending(vals, a, b) ==
    IF vals[a + 1] > vals[b + 1] THEN "Greater" ELSE "Less"

\* the comparator handed to sort_by
cmp(vals, a, b) == IF vals[a + 1] < vals[b + 1] THEN "Greater" ELSE "Less"

RECURSIVE InsertTail(_, _, _)
\* slice::sort_by on a slice of at most 20 elements is an insertion sort: the
\* next element moves left while the comparator calls it Less than its
\* left neighbour
InsertTail(vals, sorted, e) ==
    IF sorted = <<>> THEN <<e>>
    ELSE LET last == sorted[Len(sorted)]
         IN IF cmp(vals, e, last) = "Less"
            THEN Append(InsertTail(vals, SubSeq(sorted, 1, Len(sorted) - 1), e), last)
            ELSE Append(sorted, e)

RECURSIVE SortBy(_, _, _)
SortBy(vals, v, i) ==
    IF i = 0 THEN <<>>
    ELSE InsertTail(vals, SortBy(vals, v, i - 1), v[i])

sort_indices_descending(vals) ==
    LET v == [i \in 1..Len(vals) |-> i - 1]
    IN SortBy(vals, v, Len(v))

-----------------------------------------------------------------------------
(* lib.rs: validation, kernel matrix, centering *)

\* the rows and datasets a caller may hand to apply: any lengths, ragged
\* included.  A row is w copies of one value: apply reads the entries only to
\* build the matrix it hands to the decomposition
Rows == {[j \in 1..w |-> v] : w \in 0..MaxD, v \in DataValues}
Datasets == SeqsUpTo(Rows, MaxN)
\* the datasets form_kernel_matrix is applied to on its own: n rows of one
\* width, every entry free
RectDatasets ==
    UNION {Matrices(DataValues, n, w) : n \in 0..MaxN, w \in 0..MaxD}
EmbedDims == 0..MaxEmbed

\* validate with the configuration checked before the dataset
validate_config_first(e, d) ==
    IF e = 0 THEN "InvalidConfig"
    ELSE IF Len(d) = 0 THEN "InvalidData"
    ELSE LET dim == Len(d[1])
         IN IF e > dim THEN "InvalidConfig"
            ELSE IF dim = 0 THEN "InvalidData"
            ELSE IF \E i \in 1..Len(d) : Len(d[i]) # dim THEN "InvalidData"
            ELSE "Ok"

validate(e, d) ==
    IF Len(d) = 0 THEN "InvalidData"
    ELSE LET dim == Len(d[1])
         IN IF dim = 0 THEN "InvalidData"
            ELSE IF \E i \in 1..Len(d) : Len(d[i]) # dim THEN "InvalidData"
            ELSE IF e = 0 THEN "InvalidConfig"
            ELSE IF e > dim THEN "InvalidConfig"
            ELSE "Ok"

\* the loop of form_kernel_matrix without the mirrored write k[(j, i)] = kij
form_kernel_matrix_lower(k, d) ==
    LET n == Len(d)
    IN Tuple([i \in 1..n |-> Tuple([j \in 1..n |->
           IF j < i THEN compute(k, d[i], d[j])
           ELSE IF j = i THEN compute(k, d[i], d[i])
           ELSE TZero])])

\* k = zeros(n, n); for i, for j < i: kij = compute(x[i], x[j]) is written to
\* (i, j) and to (j, i); then (i, i) = compute(x[i], x[i])
form_kernel_matrix(k, d) ==
    LET n == Len(d)
    IN Tuple([i \in 1..n |-> Tuple([j \in 1..n |->
           IF j < i THEN compute(k, d[i], d[j])
           ELSE IF j = i THEN compute(k, d[i], d[i])
           ELSE compute(k, d[j], d[i])])])

RECURSIVE TSum(_, _, _)
\* f[1] + ... + f[i], accumulated from T::zero() in index order
TSum(f, i, zero) == IF i = 0 THEN zero ELSE TAdd(TSum(f, i - 1, zero), f[i])

\* matrix product over T
MatMul(a, b) ==
    Tuple([i \in 1..nrows(a) |-> Tuple([j \in 1..ncols(b) |->
        TSum(Tuple([l \in 1..ncols(a) |-> TMul(a[i][l], b[l][j])]),
             ncols(a), TZero)])])

\* q = from_element(dim, dim, 1 / tdim); r = identity - q; (r * k) * r
center_kernel_matrix(k) ==
    LET dim == nrows(k)
        tdim == TFrom(dim)
        q == TDiv(TOne, tdim)
        r == Tuple([i \in 1..dim |-> Tuple([j \in 1..dim |->
                 TSub(IF i = j THEN TOne ELSE TZero, q)])])
    IN MatMul(MatMul(r, k), r)

RECURSIVE ColumnSum(_, _, _)
\* means[j] += val over the first i rows
ColumnSum(d, j, i) == IF i = 0 THEN 0 ELSE ColumnSum(d, j, i - 1) + d[i][j]

center_data(d) ==
    LET dim == Len(d[1])
        n == Len(d)
        means == Tuple([j \in 1..dim |-> Rat(ColumnSum(d, j, n), n)])
    IN Tuple([i \in 1..n |->
                Tuple([j \in 1..dim |-> TRat(RSub(<<d[i][j], 1>>, means[j]))])])

-----------------------------------------------------------------------------
(* lib.rs: the decomposition and what apply builds from it *)

IsNaN(a) == a = NaN
FMul(a, b) == IF IsNaN(a) \/ IsNaN(b) THEN NaN ELSE a * b
FAdd(a, b) == IF IsNaN(a) \/ IsNaN(b) THEN NaN ELSE a + b
\* Float::sqrt
Sqrt(v) == IF IsNaN(v) \/ v < 0 THEN NaN ELSE CHOOSE r \in 0..v : r * r = v

Dot(m, a, b) ==
    LET f[i \in 0..nrows(m)] ==
            IF i = 0 THEN 0 ELSE f[i - 1] + m[i][a] * m[i][b]
    IN f[nrows(m)]

\* integer-scaled orthonormal columns: nonzero, pairwise orthogonal, of one norm
ScaledOrthonormal(m) ==
    \A a, b \in 1..ncols(m) :
        /\ Dot(m, a, a) > 0
        /\ Dot(m, a, a) = Dot(m, b, b)
        /\ a # b => Dot(m, a, b) = 0

\* the matrices u the decomposition may return, of every shape n x k, k <= n
LeftSingularVectors ==
    {m : m \in {c \in UNION {Matrices(UValues, n, k) : n \in 1..MaxN, k \in 1..MaxN} :
                    ncols(c) <= nrows(c) /\ ScaledOrthonormal(c)}}

\* a decomposition that returns eigenvalues in place of singular values:
\* any order, negative values included
SingularValueLists_signed(k) ==
    [1..k -> SingularValues \cup {-v : v \in SingularValues}]

\* svd.singular_values: k values, none negative, sorted descending
SingularValueLists(k) ==
    {s \in [1..k -> SingularValues] : \A i \in 1..(k - 1) : s[i] >= s[i + 1]}

\* x.svd(true, false): nalgebra's thin SVD of an n x m matrix has
\* k = min(n, m) singular values and an n x k matrix u, which is always
\* present when compute_u is true
svd(m) ==
    LET k == Min(nrows(m), ncols(m))
    IN {[u |-> uu, singular_values |-> s] :
            uu \in {c \in LeftSingularVectors : nrows(c) = nrows(m) /\ ncols(c) = k},
            s \in SingularValueLists(k)}

RECURSIVE SignFold(_, _, _)
\* the loop over one column: <<max_abs_elem, flip>> after the first i entries
SignFold(u, j, i) ==
    IF i = 0 THEN <<0, FALSE>>
    ELSE LET before == SignFold(u, j, i - 1)
             val == u[i][j]
         IN IF Abs(val) > before[1] THEN <<Abs(val), val < 0>> ELSE before

\* no normalisation: every sign is +1
determine_signs_none(u, dim) == [j \in 1..dim |-> 1]

\* the sign of the last entry of largest magnitude (>= in place of >)
determine_signs_last(u, dim) ==
    LET g[j \in 1..dim, i \in 0..nrows(u)] ==
            IF i = 0 THEN <<0, FALSE>>
            ELSE IF Abs(u[i][j]) >= g[j, i - 1][1] /\ u[i][j] # 0
                 THEN <<Abs(u[i][j]), u[i][j] < 0>> ELSE g[j, i - 1]
    IN [j \in 1..dim |-> IF g[j, nrows(u)][2] THEN -1 ELSE 1]

\* called with dim <= ncols(u) only: apply has sliced singular_values to dim
\* before (lib.rs:52)
determine_signs(u, dim) ==
    [j \in 1..dim |-> IF SignFold(u, j, nrows(u))[2] THEN -1 ELSE 1]

\* DMatrix::from_diagonal
from_diagonal(v) ==
    [i \in 1..Len(v) |-> [j \in 1..Len(v) |-> IF i = j THEN v[i] ELSE 0]]

\* sigma without the square root on the kernel path
sigma_no_sqrt(k, sv_selection) == from_diagonal(sv_selection)

\* lib.rs:54-57
sigma(k, sv_selection) ==
    IF k.tag = "Linear" THEN from_diagonal(sv_selection)
    ELSE from_diagonal([i \in 1..Len(sv_selection) |-> Sqrt(sv_selection[i])])

RECURSIVE FSum(_, _)
FSum(f, i) == IF i = 0 THEN 0 ELSE FAdd(FSum(f, i - 1), f[i])

\* matrix product over the floats of the decomposition
FMatMul(a, b) ==
    [i \in 1..nrows(a) |-> [j \in 1..ncols(b) |->
        FSum([l \in 1..ncols(a) |-> FMul(a[i][l], b[l][j])], ncols(a))]]

\* u.columns(0, dim)
columns(u, dim) == [i \in 1..nrows(u) |-> SubSeq(u[i], 1, dim)]

Ok(emb) == [kind |-> "Ok", err |-> "", emb |-> emb]
Err(e) == [kind |-> "Err", err |-> e, emb |-> <<>>]
Panic == [kind |-> "Panic", err |-> "", emb |-> <<>>]

\* the decomposition of a call that never reaches x.svd
NoSvd == [u |-> <<>>, singular_values |-> <<>>]

\* lib.rs:45-50: validation, then the centered matrix (and the kernel matrix
\* it was built from on the kernel path)
prepare(k, e, d) ==
    LET v == validate(e, d)
    IN IF v # "Ok" THEN [valid |-> v, x |-> <<>>, kmat |-> <<>>]
       ELSE IF k.tag = "Linear"
       THEN [valid |-> v, x |-> center_data(d), kmat |-> <<>>]
       ELSE LET km == form_kernel_matrix(k, d)
            IN [valid |-> v, x |-> center_kernel_matrix(km), kmat |-> km]

\* the decompositions a call that prepared p may be handed
Decompositions(p) == IF p.valid = "Ok" THEN svd(p.x) ELSE {NoSvd}

\* lib.rs:51-74, from the decomposition dec on
assemble(k, e, dec) ==
    IF e > Len(dec.singular_values)
    THEN [sqrt_args |-> <<>>, signs |-> <<>>, result |-> Panic]
    ELSE LET sv_selection == SubSeq(dec.singular_values, 1, e)
             sg == determine_signs(dec.u, e)
             u_selection == columns(dec.u, e)
             embeddings == FMatMul(u_selection, sigma(k, sv_selection))
         IN [sqrt_args |-> IF k.tag = "Linear" THEN <<>> ELSE sv_selection,
             signs |-> sg,
             result |-> Ok([i \in 1..nrows(embeddings) |->
                             [j \in 1..e |-> FMul(embeddings[i][j], sg[j])]])]

\* KernelPca::apply with p prepared, the decomposition routine answering dec
apply(k, e, p, dec) ==
    IF p.valid # "Ok"
    THEN [x |-> <<>>, kmat |-> <<>>, dec |-> NoSvd, sqrt_args |-> <<>>,
          signs |-> <<>>, result |-> Err(p.valid)]
    ELSE LET a == assemble(k, e, dec)
         IN [x |-> p.x, kmat |-> p.kmat, dec |-> dec,
             sqrt_args |-> a.sqrt_args, signs |-> a.signs, result |-> a.result]

-----------------------------------------------------------------------------
(* Spec: a configuration, a dataset, and calls of apply on them *)

NoResult == [kind |-> "None", err |-> "", emb |-> <<>>]

\* apply drains the rows it reads out of the caller's dataset
data_after_drained(d) == <<>>

\* apply(&self, data: &Vec<Vec<T>>): both borrows are shared, center_data and
\* form_kernel_matrix build new matrices: the dataset after the call
data_after(d) == d

Blank ==
    /\ x = <<>> /\ kmat = <<>> /\ svd_u = <<>> /\ svd_sv = <<>>
    /\ sqrt_args = <<>> /\ signs = <<>> /\ result = NoResult
    /\ rank_calls = 0 /\ calls = 0 /\ prev = <<>>
    /\ inds = <<>>

\* KernelPca::new(kernel, embed_dim) and a dataset of the caller
Init ==
    /\ kernel \in Kernels
    /\ embed_dim \in EmbedDims
    /\ data \in Datasets
    /\ values = <<>>
    /\ Blank

\* what one call of apply, answered dec by the decomposition, leaves behind;
\* sort_indices_descending is not called on any path
Returned(r) ==
    /\ x' = r.x
    /\ kmat' = r.kmat
    /\ svd_u' = r.dec.u
    /\ svd_sv' = r.dec.singular_values
    /\ sqrt_args' = r.sqrt_args
    /\ signs' = r.signs
    /\ result' = r.result
    /\ rank_calls' = rank_calls
    /\ calls' = calls + 1
    /\ data' = data_after(data)
    /\ UNCHANGED <<kernel, embed_dim>>

Apply ==
    /\ calls = 0
    /\ \E p \in {prepare(kernel, embed_dim, data)} :
       \E dec \in Decompositions(p) :
       \E r \in {apply(kernel, embed_dim, p, dec)} : Returned(r)
    /\ UNCHANGED <<prev, values, inds>>

Next == Apply

Spec == Init /\ [][Next]_vars

-----------------------------------------------------------------------------
(* SpecPure: repeated calls of apply on one configuration and dataset, the
   decomposition routine being deterministic: handed the matrix of the first
   call again, it answers as it did *)

Answers(p) == IF p.x = prev[1].x THEN {prev[1].dec} ELSE Decompositions(p)

PureFirst ==
    /\ calls = 0
    /\ \E p \in {prepare(kernel, embed_dim, data)} :
       \E dec \in Decompositions(p) :
       \E r \in {apply(kernel, embed_dim, p, dec)} :
           /\ Returned(r)
           /\ prev' = <<[kernel |-> kernel, embed_dim |-> embed_dim,
                         data |-> data, x |-> r.x, dec |-> r.dec,
                         result |-> r.result]>>
    /\ UNCHANGED <<values, inds>>

PureAgain ==
    /\ calls >= 1
    /\ calls < MaxCalls
    /\ \E p \in {prepare(kernel, embed_dim, data)} :
       \E dec \in Answers(p) :
       \E r \in {apply(kernel, embed_dim, p, dec)} : Returned(r)
    /\ UNCHANGED <<prev, values, inds>>

PureNext == PureFirst \/ PureAgain

SpecPure == Init /\ [][PureNext]_vars

-----------------------------------------------------------------------------
(* SpecSort: sort_indices_descending on its own *)

SortInit ==
    /\ values \in SeqsUpTo(SortValues, MaxLen)
    /\ kernel = Linear /\ embed_dim = 0 /\ data = <<>>
    /\ Blank

SortCall ==
    /\ rank_calls = 0
    /\ inds' = sort_indices_descending(values)
    /\ rank_calls' = 1
    /\ UNCHANGED <<kernel, embed_dim, data, x, kmat, svd_u, svd_sv, sqrt_args,
                   signs, result, calls, prev, values>>

SortNext == SortCall

SpecSort == SortInit /\ [][SortNext]_vars

-----------------------------------------------------------------------------
(* SpecKernel: form_kernel_matrix on its own, for every kernel *)

KernelInit ==
    /\ kernel \in Kernels
    /\ embed_dim = 0
    /\ data \in RectDatasets
    /\ values = <<>>
    /\ Blank

FormKernelMatrix ==
    /\ calls = 0
    /\ kmat' = form_kernel_matrix(kernel, data)
    /\ calls' = 1
    /\ UNCHANGED <<kernel, embed_dim, data, x, svd_u, svd_sv, sqrt_args,
                   signs, result, rank_calls, prev, values, inds>>

KernelNext == FormKernelMatrix

SpecKernel == KernelInit /\ [][KernelNext]_vars

-----------------------------------------------------------------------------
(* SpecSigns: lib.rs:52-74 on its own, from any decomposition whose u has
   one or two columns *)

SignWidths == {1, 2}
SignMatrices ==
    {m \in UNION {Matrices(SignValues, n, k) : n \in 1..MaxN, k \in SignWidths} :
        ncols(m) <= nrows(m)}

SignsInit ==
    /\ kernel \in Kernels
    /\ svd_u \in SignMatrices
    /\ svd_sv \in SingularValueLists(ncols(svd_u))
    /\ embed_dim \in 1..ncols(svd_u)
    /\ data = <<>> /\ x = <<>> /\ kmat = <<>>
    /\ sqrt_args = <<>> /\ signs = <<>> /\ result = NoResult
    /\ rank_calls = 0 /\ calls = 0 /\ prev = <<>>
    /\ values = <<>> /\ inds = <<>>

Assemble ==
    /\ calls = 0
    /\ \E a \in {assemble(kernel, embed_dim,
                          [u |-> svd_u, singular_values |-> svd_sv])} :
           /\ sqrt_args' = a.sqrt_args
           /\ signs' = a.signs
           /\ result' = a.result
    /\ calls' = 1
    /\ UNCHANGED <<kernel, embed_dim, data, x, kmat, svd_u, svd_sv,
                   rank_calls, prev, values, inds>>

SignsNext == Assemble

SpecSigns == SignsInit /\ [][SignsNext]_vars

-----------------------------------------------------------------------------
(* The claims *)

Returned1 == calls = 1
OkResult == calls >= 1 /\ result.kind = "Ok"
Rectangular(d) == \A i \in 1..Len(d) : Len(d[i]) = Len(d[1])
Width(d) == IF Len(d) = 0 THEN 0 ELSE Len(d[1])
BadData(d) == Len(d) = 0 \/ Width(d) = 0 \/ ~Rectangular(d)
BadConfig(e, d) == e = 0 \/ e > Width(d)
\* an embedding of n rows and e columns
Complete(emb, n, e) == Len(emb) = n /\ \A i \in 1..n : Len(emb[i]) = e

\* C1: validate returns the error of the first failing check, in the order
\* no rows, zero width, ragged rows (InvalidData), embed_dim = 0,
\* embed_dim > width (InvalidConfig), and lets the call go on exactly when
\* none fails; invalid data with an invalid embed_dim is InvalidData.
C1_ValidateOrder ==
    Returned1 =>
        /\ BadData(data) => result = Err("InvalidData")
        /\ (~BadData(data) /\ BadConfig(embed_dim, data))
               => result = Err("InvalidConfig")
        /\ (~BadData(data) /\ ~BadConfig(embed_dim, data))
               <=> result.kind # "Err"

C1_Witness ==
    /\ Returned1
    /\ Len(data) = 2 /\ ~Rectangular(data) /\ embed_dim = 0
    /\ result = Err("InvalidData")

\* C2: for every input that passes validation apply returns an embedding of
\* exactly n rows and embed_dim columns, also when n < embed_dim <= d.
C2_ShapeForValidInput ==
    (Returned1 /\ ~BadData(data) /\ ~BadConfig(embed_dim, data))
        => /\ result.kind = "Ok"
           /\ Complete(result.emb, Len(data), embed_dim)

\* C3: every call of apply ends in Ok(complete embedding) or in Err of one
\* of the three kinds, never in a panic.
C3_OkOrErr ==
    Returned1 =>
        \/ /\ result.kind = "Ok"
           /\ Complete(result.emb, Len(data), embed_dim)
        \/ /\ result.kind = "Err"
           /\ result.err \in {"ComputationFailure", "InvalidConfig", "InvalidData"}

C5_SortedPermutation ==
    rank_calls = 1 =>
        /\ Len(inds) = Len(values)
        /\ {inds[k] : k \in 1..Len(inds)} = 0..(Len(values) - 1)
        /\ \A k \in 1..(Len(inds) - 1) :
               values[inds[k] + 1] >= values[inds[k + 1] + 1]
        /\ values = <<5, 3, 8, 7, 4>> => inds = <<2, 3, 0, 4, 1>>

C5_Witness ==
    /\ rank_calls = 1
    /\ values = <<5, 3, 8, 7, 4>>
    /\ inds = <<2, 3, 0, 4, 1>>

\* C6: form_kernel_matrix returns the n x n matrix of the kernel values of
\* every pair of rows, diagonal included, equal to its transpose; compute
\* is symmetric.
C6_KernelMatrix ==
    calls = 1 =>
        /\ Complete(kmat, Len(data), Len(data))
        /\ \A i, j \in 1..Len(data) :
               /\ kmat[i][j] = compute(kernel, data[i], data[j])
               /\ kmat[i][j] = kmat[j][i]
               /\ compute(kernel, data[i], data[j])
                      = compute(kernel, data[j], data[i])

C6_Witness ==
    /\ calls = 1
    /\ Len(data) >= 2
    /\ data[1] # data[2]
    /\ kmat[1][2] # TZero
    /\ kmat[1][2] # kmat[1][1]

\* the scaling of column j: the singular value on the Linear path, its
\* square root on the kernel path
Scale(j) == IF kernel.tag = "Linear" THEN svd_sv[j] ELSE Sqrt(svd_sv[j])

\* C7 as stated: on the kernel path the ranking utility is called exactly
\* once per call of apply and embedding[i][j] = eigenvector_j[i] *
\* sqrt(eigenvalue_j); on the Linear path it is never called and column j
\* is built from the j-th singular value.
C7_RankedOnce ==
    OkResult =>
        /\ rank_calls = IF kernel.tag = "Linear" THEN 0 ELSE calls
        /\ \A i \in 1..Len(data) : \A j \in 1..embed_dim :
               result.emb[i][j] = FMul(svd_u[i][j], Scale(j))

\* C7 amended: the ranking utility is called on no path; column j is built
\* from the j-th singular value in the order the SVD returns them, times
\* the sign determine_signs gives the column.
C7_SvdOrder ==
    OkResult =>
        /\ rank_calls = 0
        /\ \A i \in 1..Len(data) : \A j \in 1..embed_dim :
               result.emb[i][j]
                   = FMul(FMul(svd_u[i][j], Scale(j)), signs[j])

C7_Witness ==
    /\ OkResult
    /\ kernel.tag # "Linear"
    /\ \E i \in 1..Len(data) : \E j \in 1..embed_dim :
           /\ svd_sv[j] = 4
           /\ svd_u[i][j] # 0
           /\ signs[j] = -1
           /\ result.emb[i][j] = 2

FlipColumn(u, j) ==
    [i \in 1..Len(u) |-> [l \in 1..Len(u[i]) |->
        IF l = j THEN -u[i][l] ELSE u[i][l]]]

\* the embedding apply returns when the decomposition answers with column j
\* of u negated, all else equal
EmbeddingFlipped(j) ==
    assemble(kernel, embed_dim,
             [u |-> FlipColumn(svd_u, j), singular_values |-> svd_sv]).result.emb

\* C9 as stated: apply does not normalise signs: a decomposition with
\* column j of u negated gives the embedding with column j negated.
C9_NoNormalization ==
    OkResult =>
        \A j \in 1..embed_dim :
            EmbeddingFlipped(j) = FlipColumn(result.emb, j)

\* C9 amended: apply normalises signs: a decomposition with column j of u
\* negated gives the same embedding.
C9_SignNormalized ==
    OkResult =>
        \A j \in 1..embed_dim : EmbeddingFlipped(j) = result.emb

C9_Witness ==
    /\ OkResult
    /\ \E j \in 1..embed_dim :
           /\ signs[j] = -1
           /\ \E i \in 1..Len(result.emb) : result.emb[i][j] > 0

\* the first entry (in row order) of column j of m of largest magnitude
FirstLargest(m, j) ==
    LET big == CHOOSE i \in 1..Len(m) :
                   /\ \A l \in 1..Len(m) : Abs(m[l][j]) <= Abs(m[i][j])
                   /\ \A l \in 1..(i - 1) : Abs(m[l][j]) < Abs(m[i][j])
    IN m[big][j]

\* C10: determine_signs returns dim values, each +1 or -1, -1 exactly for the
\* columns whose first entry of largest magnitude is negative; in the
\* embedding returned, the first entry of largest magnitude of every column
\* is >= 0.
C10_Signs ==
    calls = 1 =>
        /\ Len(signs) = embed_dim
        /\ \A j \in 1..embed_dim :
               /\ signs[j] \in {1, -1}
               /\ signs[j] = -1 <=> FirstLargest(svd_u, j) < 0
        /\ result.kind = "Ok"
        /\ \A j \in 1..embed_dim : FirstLargest(result.emb, j) >= 0

C10_Witness ==
    /\ calls = 1
    /\ embed_dim = 2
    /\ Len(svd_u) = 2
    /\ svd_u[1] = <<-1, 0>>
    /\ svd_u[2] = <<1, -1>>
    /\ signs = <<-1, -1>>
    /\ svd_sv = <<4, 4>>

====
